---- MODULE Spec2Model ----
(***************************************************************************)
(* Model of src/plot_tool_web.py: parse_txt_file, merge_txt_files and the  *)
(* sidebar part of main.                                                   *)
(*                                                                         *)
(* Text is a sequence of tokens.  A token stands for a run of characters   *)
(* that the code never looks inside: "bochang" is the two-character        *)
(* localized word for wavelength, "xishouzhi" the three-character word for *)
(* absorbance, "mojibake" what the UTF-8 bytes of "bochang" read as GBK,   *)
(* "NL" the line feed, "CR" the carriage return, "SP" a blank, "," the     *)
(* comma, "." the dot of a file name.  Every other token is the ASCII      *)
(* string it shows.                                                        *)
(*                                                                         *)
(* A float is <<"num", n>> (n in hundredths), <<"nan", 0>>, <<"inf", 1>>   *)
(* or <<"inf", -1>>.  A DataFrame is [kind, cols, rows]: cols the column   *)
(* labels (token sequences), rows the rows in order.                       *)
(***************************************************************************)
EXTENDS Integers, Sequences, FiniteSets, TLC

VARIABLES uploaded_files, pandas_version, df, dfs, file_names, errors,
          stage, success, parse_result

vars == <<uploaded_files, pandas_version, df, dfs, file_names, errors,
          stage, success, parse_result>>

(* ------------------------------ bounds ---------------------------------- *)
MaxFiles == 3

MaxLines == 4

(* --------------------------- small helpers ------------------------------ *)
SetMin(S) == CHOOSE m \in S : \A n \in S : m <= n

SetMax(S) == CHOOSE m \in S : \A n \in S : m >= n

Range(s) == {s[i] : i \in 1..Len(s)}

RECURSIVE Join(_, _)
Join(ls, sep) ==
  IF ls = <<>> THEN <<>>
  ELSE IF Len(ls) = 1 THEN ls[1]
  ELSE ls[1] \o <<sep>> \o Join(Tail(ls), sep)

(* ------------------------- Python str / float --------------------------- *)
Whitespace == {"SP", "CR", "TAB"}

\* str.strip(): leading and trailing whitespace removed
str_strip(s) ==
  LET keep == {i \in 1..Len(s) : s[i] \notin Whitespace}
  IN IF keep = {} THEN <<>> ELSE SubSeq(s, SetMin(keep), SetMax(keep))

\* str.split(sep): always at least one part, empty parts kept
RECURSIVE str_split(_, _)
str_split(s, sep) ==
  LET at == {i \in 1..Len(s) : s[i] = sep}
  IN IF at = {} THEN <<s>>
     ELSE <<SubSeq(s, 1, SetMin(at) - 1)>>
          \o str_split(SubSeq(s, SetMin(at) + 1, Len(s)), sep)

\* str.lower() on one token
lower_token(t) ==
  CASE t = "Wavelength" -> "wavelength"
    [] t = "WAVELENGTH" -> "wavelength"
    [] t = "Abs" -> "abs"
    [] t = "NaN" -> "nan"
    [] OTHER -> t

str_lower(s) == [i \in 1..Len(s) |-> lower_token(s[i])]

\* sub in s, for a sub that is one token
str_contains(s, sub) == \E i \in 1..Len(s) : s[i] = sub

ValueError == <<"ValueError">>

NaN == <<"nan", 0>>

PosInf == <<"inf", 1>>

\* the value float() gives a single token, ValueError when it is no number
float_token(t) ==
  CASE t = "400" -> <<"num", 40000>>
    [] t = "400.0" -> <<"num", 40000>>
    [] t = "4e2" -> <<"num", 40000>>
    [] t = "410" -> <<"num", 41000>>
    [] t = "420" -> <<"num", 42000>>
    [] t = "0.12" -> <<"num", 12>>
    [] t = "0.15" -> <<"num", 15>>
    [] t = "0.20" -> <<"num", 20>>
    [] t = "0.30" -> <<"num", 30>>
    [] t = "0.41" -> <<"num", 41>>
    [] t = "0.42" -> <<"num", 42>>
    [] t = "0.5" -> <<"num", 50>>
    [] t = "0.6" -> <<"num", 60>>
    [] t = "0.7" -> <<"num", 70>>
    [] t = "0.8" -> <<"num", 80>>
    [] t = "0.9" -> <<"num", 90>>
    [] t = "nan" -> NaN
    [] t = "NaN" -> NaN
    [] t = "inf" -> PosInf
    [] t = "infinity" -> PosInf
    [] OTHER -> ValueError

\* float(s): surrounding whitespace is ignored, the rest must be one number
float(s) ==
  LET t == str_strip(s)
  IN IF Len(t) = 1 THEN float_token(t[1]) ELSE ValueError

(* ------------------------------ bytes ----------------------------------- *)
(* An upload's bytes are the encoding of a text: [tag, chars].  tag is the *)
(* encoding the file was written in ("gbk", "utf8", "utf16" with a byte    *)
(* order mark) or "bin" for bytes that are no text in any candidate.       *)
CJK == {"bochang", "xishouzhi"}

DecodeError == <<"UnicodeDecodeError">>

\* bytes.decode(encoding) of one token's bytes: the token read, or "ERR"
decode_token(tag, encoding, t) ==
  CASE tag = "bin" -> "ERR"
    [] tag = "gbk" ->
         IF encoding \in {"gbk", "gb2312"} THEN t
         ELSE IF encoding = "utf-8" /\ t \notin CJK THEN t
         ELSE "ERR"
    [] tag = "utf8" ->
         IF encoding = "utf-8" THEN t
         ELSE IF encoding = "utf-16" THEN "ERR"
         ELSE IF t \notin CJK THEN t
         ELSE IF t = "bochang" /\ encoding = "gbk" THEN "mojibake"
         ELSE "ERR"
    [] tag = "utf16" ->
         IF encoding = "utf-16" THEN t ELSE "ERR"
    [] OTHER -> "ERR"

\* bytes.decode(encoding): the text, or DecodeError; b'' decodes to ''
bytes_decode(data, encoding) ==
  IF data.chars = <<>> THEN <<>>
  ELSE IF data.tag = "utf16" /\ encoding # "utf-16" THEN DecodeError
  ELSE LET r == [i \in 1..Len(data.chars) |->
                   decode_token(data.tag, encoding, data.chars[i])]
       IN IF \E i \in 1..Len(r) : r[i] = "ERR" THEN DecodeError ELSE r

\* seek left out: the read position stays where the last read left it
file_seek_noop(pos, target) == pos

\* uploaded_file.seek(target): the new read position
file_seek(pos, target) == target

\* uploaded_file.read(): the bytes from the read position to the end
file_read(data, pos) ==
  [tag |-> data.tag, chars |-> SubSeq(data.chars, pos + 1, Len(data.chars))]

(* --------------------------- parse_txt_file ----------------------------- *)
encodings == <<"gbk", "utf-8", "gb2312", "utf-16">>

\* the loop over the encodings: [ok, content, pos, encoding]
RECURSIVE decode_loop(_, _, _)
decode_loop(data, pos, i) ==
  IF i > Len(encodings)
  THEN [ok |-> FALSE, content |-> <<>>, pos |-> pos, encoding |-> "none"]
  ELSE LET p0 == file_seek(pos, 0)
           raw == file_read(data, p0)
           p1 == Len(data.chars)
           text == bytes_decode(raw, encodings[i])
       IN IF text # DecodeError
          THEN [ok |-> TRUE, content |-> text, pos |-> p1,
                encoding |-> encodings[i]]
          ELSE decode_loop(data, p1, i + 1)

\* the condition of the header scan
is_header_line(line) ==
  str_contains(line, "bochang") \/ str_contains(str_lower(line), "Wavelength")

\* data_start_idx: index after the first header line, -1 when there is none
find_data_start(lines) ==
  LET hit == {i \in 1..Len(lines) : is_header_line(lines[i])}
  IN IF hit = {} THEN -1 ELSE SetMin(hit)

\* the body of the extraction loop for one line: the rows it appends
extract_line(raw_line) ==
  LET line == str_strip(raw_line)
  IN IF line # <<>> /\ str_contains(line, ",")
     THEN LET parts == str_split(line, ",")
          IN IF Len(parts) >= 2
             THEN LET wavelength == float(parts[1])
                      absorbance == float(parts[2])
                  IN IF wavelength = ValueError \/ absorbance = ValueError
                     THEN <<>>
                     ELSE << <<wavelength, absorbance>> >>
             ELSE <<>>
     ELSE <<>>

\* break in place of continue: the loop ends at the first line it skips
RECURSIVE extract_data_break(_)
extract_data_break(lines) ==
  IF lines = <<>> THEN <<>>
  ELSE IF extract_line(Head(lines)) = <<>> THEN <<>>
  ELSE extract_line(Head(lines)) \o extract_data_break(Tail(lines))

\* the extraction loop over lines[data_start_idx:]
RECURSIVE extract_data(_)
extract_data(lines) ==
  IF lines = <<>> THEN <<>>
  ELSE extract_line(Head(lines)) \o extract_data(Tail(lines))

None == [kind |-> "None", cols |-> <<>>, rows |-> <<>>]

DataFrame(rows, cols) == [kind |-> "df", cols |-> cols, rows |-> rows]

st_error(kind, name) == [level |-> "error", kind |-> kind, file |-> name]

\* the failure value with the st.error that names the file
parse_failure(uploaded_file, pos, kind) ==
  [df |-> None, pos |-> pos, errors |-> <<st_error(kind, uploaded_file.name)>>]

\* lines 71-77: the rows found make the DataFrame, none is a failure
parse_rows(uploaded_file, pos, data_lines) ==
  IF data_lines = <<>>
  THEN parse_failure(uploaded_file, pos, "no_data")
  ELSE [df |-> DataFrame(data_lines, << <<"Wavelength">>, <<"Absorbance">> >>),
        pos |-> pos, errors |-> <<>>]

\* lines 53-69: no header is a failure, else the lines behind it are read
parse_from(uploaded_file, pos, lines, data_start_idx) ==
  IF data_start_idx = -1
  THEN parse_failure(uploaded_file, pos, "no_header")
  ELSE parse_rows(uploaded_file, pos,
                  extract_data(SubSeq(lines, data_start_idx + 1, Len(lines))))

\* lines 45-51: the text is split into lines and scanned for the header
parse_lines(uploaded_file, pos, lines) ==
  parse_from(uploaded_file, pos, lines, find_data_start(lines))

\* lines 40-45: no decoding is a failure, else the text is parsed
parse_decoded(uploaded_file, d) ==
  IF ~d.ok
  THEN parse_failure(uploaded_file, d.pos, "encoding")
  ELSE parse_lines(uploaded_file, d.pos, str_split(d.content, "NL"))

\* parse_txt_file: [df, errors, pos] (return value, st.error calls, read position)
parse_txt_file(uploaded_file) ==
  parse_decoded(uploaded_file,
                decode_loop(uploaded_file.data, uploaded_file.pos, 1))

(* ------------------------------ pandas ---------------------------------- *)
KeyLabel == <<"Wavelength">>

PandasVersions == {"1.5", "2.1", "2.2"}

Raised(exc) == [kind |-> exc, cols |-> <<>>, rows |-> <<>>]

IsFrame(d) == d.kind = "df"

\* the rows of right whose key (column 1) is k, in right's order
MatchRows(rrows, k) == SelectSeq(rrows, LAMBDA r : r[1] = k)

\* how='left': a left row without a match is kept, its value missing
JoinOne_left(l, rrows) ==
  LET m == MatchRows(rrows, l[1])
  IN IF m = <<>> THEN <<l \o <<NaN>>>>
     ELSE [j \in 1..Len(m) |-> l \o Tail(m[j])]

\* one left row joined with every matching right row
JoinOne(l, rrows) ==
  LET m == MatchRows(rrows, l[1])
  IN [j \in 1..Len(m) |-> l \o Tail(m[j])]

\* inner join that keeps the order of the left rows (pandas 2.2 and later)
RECURSIVE JoinLeftOrder(_, _)
JoinLeftOrder(lrows, rrows) ==
  IF lrows = <<>> THEN <<>>
  ELSE JoinOne(Head(lrows), rrows) \o JoinLeftOrder(Tail(lrows), rrows)

\* the distinct keys of the rows in order of first appearance
RECURSIVE FirstKeys(_, _)
FirstKeys(rows, seen) ==
  IF rows = <<>> THEN <<>>
  ELSE IF Head(rows)[1] \in seen THEN FirstKeys(Tail(rows), seen)
  ELSE <<Head(rows)[1]>> \o FirstKeys(Tail(rows), seen \cup {Head(rows)[1]})

\* inner join grouped by key, keys in order of first appearance on the left
\* (pandas before 2.2)
RECURSIVE JoinGrouped(_, _, _)
JoinGrouped(keys, lrows, rrows) ==
  IF keys = <<>> THEN <<>>
  ELSE JoinLeftOrder(MatchRows(lrows, Head(keys)), rrows)
       \o JoinGrouped(Tail(keys), lrows, rrows)

JoinRows(lrows, rrows, version) ==
  IF version = "2.2" THEN JoinLeftOrder(lrows, rrows)
  ELSE JoinGrouped(FirstKeys(lrows, {}), lrows, rrows)

\* no suffixes: a label both frames have stays as it is on both sides
AddSuffix_none(cols, overlap, suffix) == cols

\* a label of a column both frames have gets the suffix
AddSuffix(cols, overlap, suffix) ==
  [i \in 1..Len(cols) |-> IF cols[i] \in overlap THEN cols[i] \o <<suffix>>
                          ELSE cols[i]]

\* renaming made two labels equal that were different before
NewDuplicates(before, after) ==
  \E i \in 1..Len(after) :
     /\ \E j \in 1..(i - 1) : after[j] = after[i]
     /\ ~ \E j \in 1..(i - 1) : before[j] = before[i]

CountLabel(cols, label) == Cardinality({i \in 1..Len(cols) : cols[i] = label})

\* column assignment in place of a merge with suffixes: a column whose
\* label the table already has replaces that column
pd_merge_overwrite(left, right, version) ==
  IF CountLabel(left.cols, KeyLabel) # 1 \/ CountLabel(right.cols, KeyLabel) # 1
  THEN Raised("ValueError")
  ELSE LET joined == JoinRows(left.rows, right.rows, version)
           n == Len(left.cols)
       IN IF right.cols[2] \in Range(left.cols)
          THEN DataFrame([r \in 1..Len(joined) |->
                            [k \in 1..n |->
                               IF left.cols[k] = right.cols[2]
                               THEN joined[r][n + 1] ELSE joined[r][k]]],
                         left.cols)
          ELSE DataFrame(joined, left.cols \o Tail(right.cols))

\* pd.merge(left, right, on='Wavelength', how='inner')
pd_merge(left, right, version) ==
  IF CountLabel(left.cols, KeyLabel) # 1 \/ CountLabel(right.cols, KeyLabel) # 1
  THEN Raised("ValueError")
  ELSE LET overlap == (Range(left.cols) \cap Range(right.cols)) \ {KeyLabel}
           lcols == AddSuffix(left.cols, overlap, "_x")
           rcols == AddSuffix(right.cols, overlap, "_y")
       IN IF version # "1.5" /\ (NewDuplicates(left.cols, lcols)
                                 \/ NewDuplicates(right.cols, rcols))
          THEN Raised("MergeError")
          ELSE DataFrame(JoinRows(left.rows, right.rows, version),
                         lcols \o Tail(rcols))

(* --------------------------- merge_txt_files ---------------------------- *)
\* os.path.splitext(name)[0]
splitext_root(name) ==
  LET dots == {i \in 1..Len(name) : name[i] = "."}
  IN IF dots = {} THEN name
     ELSE IF \E i \in 1..(SetMax(dots) - 1) : name[i] # "."
          THEN SubSeq(name, 1, SetMax(dots) - 1)
          ELSE name

\* one pass of the loop over the uploads: r is the parse result of
\* uploaded_file
parse_step(acc, uploaded_file, r) ==
  IF r.df # None
  THEN [dfs |-> Append(acc.dfs, r.df),
        file_names |-> Append(acc.file_names, splitext_root(uploaded_file.name)),
        errors |-> acc.errors \o r.errors,
        files |-> Append(acc.files, [uploaded_file EXCEPT !.pos = r.pos])]
  ELSE [acc EXCEPT !.errors = acc.errors \o r.errors,
                   !.files = Append(acc.files,
                                    [uploaded_file EXCEPT !.pos = r.pos])]

\* return in place of skipping: the loop ends at the first file that fails
RECURSIVE parse_all_abort(_, _)
parse_all_abort(files, acc) ==
  IF files = <<>> THEN acc
  ELSE IF parse_txt_file(Head(files)).df = None
  THEN [dfs |-> acc.dfs, file_names |-> acc.file_names,
        errors |-> acc.errors \o parse_txt_file(Head(files)).errors,
        files |-> acc.files \o files]
  ELSE parse_all_abort(Tail(files),
                       parse_step(acc, Head(files), parse_txt_file(Head(files))))

\* the loop that parses the files: [dfs, file_names, errors, files]
RECURSIVE parse_all(_, _)
parse_all(files, acc) ==
  IF files = <<>> THEN acc
  ELSE parse_all(Tail(files),
                 parse_step(acc, Head(files), parse_txt_file(Head(files))))

\* the loop that merges dfs[idx..] into merged_df
RECURSIVE merge_loop(_, _, _, _, _)
merge_loop(merged_df, frames, names, idx, version) ==
  IF idx > Len(frames) \/ ~IsFrame(merged_df) THEN merged_df
  ELSE LET df_temp == DataFrame(frames[idx].rows, <<KeyLabel, names[idx]>>)
       IN merge_loop(pd_merge(merged_df, df_temp, version),
                     frames, names, idx + 1, version)

\* dfs[0][['Wavelength']].copy()
key_column(frame) ==
  DataFrame([i \in 1..Len(frame.rows) |-> <<frame.rows[i][1]>>], <<KeyLabel>>)

\* the key column seeded from the last parsed file in place of the first
merge_parsed_last(p, version) ==
  [df |-> IF p.dfs = <<>> THEN None
          ELSE merge_loop(key_column(p.dfs[Len(p.dfs)]), p.dfs, p.file_names,
                          1, version),
   dfs |-> p.dfs, file_names |-> p.file_names, errors |-> p.errors,
   files |-> p.files]

\* lines 104-117: no parsed file gives None, else the frames are merged
merge_parsed(p, version) ==
  [df |-> IF p.dfs = <<>> THEN None
          ELSE merge_loop(key_column(p.dfs[1]), p.dfs, p.file_names, 1, version),
   dfs |-> p.dfs, file_names |-> p.file_names, errors |-> p.errors,
   files |-> p.files]

\* merge_txt_files: [df, dfs, file_names, errors, files]
merge_txt_files(files, version) ==
  IF files = <<>>
  THEN [df |-> None, dfs |-> <<>>, file_names |-> <<>>, errors |-> <<>>,
        files |-> files]
  ELSE merge_parsed(parse_all(files, [dfs |-> <<>>, file_names |-> <<>>,
                                      errors |-> <<>>, files |-> <<>>]),
                    version)

(* --------------------------------- main --------------------------------- *)
Unset == [kind |-> "unset", cols |-> <<>>, rows |-> <<>>]

NoSuccess == [shown |-> FALSE, files |-> 0, points |-> 0]

\* st.success(f"... {len(uploaded_files)} ... {len(df)} ...")
st_success(files, frame) ==
  [shown |-> TRUE, files |-> Len(files), points |-> Len(frame.rows)]

\* the Y-axis multiselect: by default every column but the X column
\* (columns[0]); y_cleared: the user has emptied it
y_cols(columns, y_cleared) ==
  IF y_cleared THEN <<>>
  ELSE SelectSeq(columns, LAMBDA c : c # columns[1])

\* what main does with the result m of merge_txt_files: an exception, None,
\* or a table with the success message and the column selection
main_merged(files, m, y_cleared) ==
  IF m.df.kind \in {"ValueError", "MergeError"}
  THEN [files |-> m.files, df |-> m.df, dfs |-> m.dfs,
        file_names |-> m.file_names,
        errors |-> Append(m.errors, st_error("process_failed", <<>>)),
        success |-> NoSuccess, stage |-> "process_failed"]
  ELSE IF m.df = None
  THEN [files |-> m.files, df |-> m.df, dfs |-> m.dfs,
        file_names |-> m.file_names,
        errors |-> Append(m.errors, st_error("cannot_parse", <<>>)),
        success |-> NoSuccess, stage |-> "parse_failed"]
  ELSE [files |-> m.files, df |-> m.df, dfs |-> m.dfs,
        file_names |-> m.file_names, errors |-> m.errors,
        success |-> st_success(files, m.df),
        stage |-> IF y_cols(m.df.cols, y_cleared) = <<>> THEN "warning"
                  ELSE "chart"]

\* the try block of the sidebar: merge, then the messages and the selection
main_try(files, version, y_cleared) ==
  main_merged(files, merge_txt_files(files, version), y_cleared)

\* the check of the upload list left out: the try block runs on any list
main_no_guard(files, version, y_cleared) == main_try(files, version, y_cleared)

\* the sidebar part of main and the guard of the chart part, for one run of
\* the script
main(files, version, y_cleared) ==
  IF files = <<>>
  THEN [files |-> files, df |-> Unset, dfs |-> <<>>, file_names |-> <<>>,
        errors |-> <<>>, success |-> NoSuccess, stage |-> "info"]
  ELSE main_try(files, version, y_cleared)

(* ------------------------------- uploads -------------------------------- *)
Text(lines) == Join(lines, "NL")

Upload(name, tag, lines) ==
  [name |-> name, data |-> [tag |-> tag, chars |-> Text(lines)], pos |-> 0]

HeaderCN == <<"bochang", ",", "xishouzhi">>

HeaderEN == <<"Wavelength", ",", "Abs">>

\* the uploads the user chooses from
FilePool ==
  { Upload(<<"a", ".", "txt">>, "gbk",
           <<HeaderCN, <<"400", ",", "0.12">>, <<"410", ",", "0.15">> >>),
    Upload(<<"b", ".", "txt">>, "gbk",
           <<HeaderCN, <<"400", ",", "0.20">>, <<"420", ",", "0.30">> >>),
    Upload(<<"bad", ".", "txt">>, "bin", << <<"junk">> >>),
    Upload(<<"a", ".", "TXT">>, "utf16",
           <<HeaderCN \o <<"CR">>, <<"410", ",", "0.5", "CR">>,
             <<"400.0", ",", "SP", "0.6", "CR">>, <<>> >>),
    Upload(<<"d", ".", "txt">>, "gbk",
           << <<"bochang">>, <<"400", ",", "0.7">>, <<"nan", ",", "0.8">>,
              <<"abc">>, <<"400", ",", "0.9", ",", "extra">> >>),
    Upload(<<"Wavelength", ".", "txt">>, "gbk",
           <<HeaderCN, <<"400", ",", "0.30">> >>),
    Upload(<<"a", "_x", ".", "txt">>, "utf8",
           <<HeaderCN, <<"420", ",", "0.15">> >>) }

(* ------------------------------- actions -------------------------------- *)
\* one run of the script with the uploads in files
RunMain(files, y_cleared) ==
  \E r \in {main(files, pandas_version, y_cleared)} :
     /\ uploaded_files' = r.files
     /\ df' = r.df
     /\ dfs' = r.dfs
     /\ file_names' = r.file_names
     /\ errors' = r.errors
     /\ success' = r.success
     /\ stage' = r.stage
     /\ UNCHANGED <<pandas_version, parse_result>>

\* the user adds a file in the uploader; the script reruns (the Y-axis
\* multiselect has new options and so shows its default)
UploadFile ==
  \E f \in FilePool :
     /\ Len(uploaded_files) < MaxFiles
     /\ RunMain(Append(uploaded_files, f), FALSE)

\* the user removes a file in the uploader; the script reruns
RemoveFile ==
  \E i \in 1..Len(uploaded_files) :
     RunMain(SubSeq(uploaded_files, 1, i - 1)
             \o SubSeq(uploaded_files, i + 1, Len(uploaded_files)), FALSE)

\* any other widget interaction: the script reruns on the same uploads
Rerun ==
  \E y_cleared \in BOOLEAN : RunMain(uploaded_files, y_cleared)

Init ==
  /\ uploaded_files = <<>>
  /\ pandas_version \in PandasVersions
  /\ df = Unset
  /\ dfs = <<>>
  /\ file_names = <<>>
  /\ errors = <<>>
  /\ success = NoSuccess
  /\ stage = "start"
  /\ parse_result = [df |-> Unset, pos |-> 0, errors |-> <<>>]

Next == UploadFile \/ RemoveFile \/ Rerun

Spec == Init /\ [][Next]_vars

(* --------------------- parse_txt_file on its own ------------------------ *)
\* the lines the generated files are made of
LinePool ==
  { HeaderCN,
    <<"bochang">>,
    HeaderEN,
    <<"WAVELENGTH">>,
    <<"400", ",", "0.12">>,
    <<"SP", "410", ",", "SP", "0.15", ",", "extra", "CR">>,
    <<>>,
    <<"nan", ",", "0.20">>,
    <<"400", ",", "0.12", ",", "bochang">> }

\* all sequences of at most n lines of the pool
RECURSIVE LineSeqs(_)
LineSeqs(n) ==
  IF n = 0 THEN {<<>>}
  ELSE LET shorter == LineSeqs(n - 1)
       IN shorter \cup {Append(ls, l) : ls \in {x \in shorter : Len(x) = n - 1},
                                        l \in LinePool}

GenName == <<"s", ".", "txt">>

GenFiles ==
  {Upload(GenName, tag, ls) : tag \in {"gbk", "utf8"}, ls \in LineSeqs(MaxLines)}
  \cup {Upload(GenName, "utf16", ls) : ls \in LineSeqs(2)}
  \cup {Upload(GenName, "bin", << <<"junk">> >>)}

\* parse_txt_file called on the upload
ParseFile ==
  \E r \in {parse_txt_file(uploaded_files[1])} :
     /\ parse_result' = r
     /\ uploaded_files' = <<[uploaded_files[1] EXCEPT !.pos = r.pos]>>
     /\ UNCHANGED <<pandas_version, df, dfs, file_names, errors, stage, success>>

InitParse ==
  /\ uploaded_files \in {<<f>> : f \in GenFiles}
  /\ pandas_version = "2.2"
  /\ df = Unset
  /\ dfs = <<>>
  /\ file_names = <<>>
  /\ errors = <<>>
  /\ success = NoSuccess
  /\ stage = "start"
  /\ parse_result = [df |-> Unset, pos |-> 0, errors |-> <<>>]

NextParse == ParseFile

SpecParse == InitParse /\ [][NextParse]_vars

(* ======================================================================== *)
(*                               properties                                 *)
(* ======================================================================== *)
\* a run of the script has finished
HasRun == stage # "start"

\* the x-values of a frame
KeySet(frame) == {frame.rows[i][1] : i \in 1..Len(frame.rows)}

\* the x-values that occur in every parsed spectrum
CommonKeys ==
  {k \in KeySet(dfs[1]) : \A i \in 1..Len(dfs) : k \in KeySet(dfs[i])}

\* C1: whenever merge_txt_files returns a table for a non-empty list of
\* parsed spectra, the key column holds exactly the x-values that occur in
\* every one of the spectra: none that some spectrum lacks, none missing.
C1_InnerJoinKeys ==
  (HasRun /\ dfs # <<>> /\ IsFrame(df)) => KeySet(df) = CommonKeys

\* Scenario A: rows 400/410 and 400/420 give the single row 400, 0.12, 0.20
C1_Witness ==
  /\ HasRun /\ IsFrame(df) /\ Len(dfs) = 2
  /\ KeySet(dfs[1]) = {<<"num", 40000>>, <<"num", 41000>>}
  /\ KeySet(dfs[2]) = {<<"num", 40000>>, <<"num", 42000>>}
  /\ df.rows = << <<(<<"num", 40000>>), (<<"num", 12>>), (<<"num", 20>>)>> >>

\* C2: when some file parsed but the spectra share no x-value, alignment
\* fails: no table is returned and main shows no success message and does
\* not reach column selection or the chart.
C2_NoOverlapFails ==
  (HasRun /\ dfs # <<>> /\ CommonKeys = {})
     => (~IsFrame(df) /\ ~success.shown /\ stage \notin {"chart", "warning"})

(* -------------------- properties of parse_txt_file ---------------------- *)
\* parse_txt_file has been called on the upload
Parsed == parse_result.df # Unset

TheFile == uploaded_files[1]

\* the English word in the letter cases the uploads use
EnglishMarkers == {"Wavelength", "WAVELENGTH", "wavelength"}

HasEnglishMarker(line) == \E i \in 1..Len(line) : line[i] \in EnglishMarkers

HasLocalMarker(line) == \E i \in 1..Len(line) : line[i] = "bochang"

\* a valid data line: at least two comma-separated fields, fields 0 and 1
\* both numbers
ValidLine(line) ==
  LET fs == str_split(line, ",")
  IN Len(fs) >= 2 /\ float(fs[1]) # ValueError /\ float(fs[2]) # ValueError

PointOf(line) ==
  LET fs == str_split(line, ",") IN <<float(fs[1]), float(fs[2])>>

\* the text of the upload when it is plain ASCII (every candidate but
\* utf-16 reads the bytes as the same text)
IsAsciiFile ==
  /\ TheFile.data.tag \in {"gbk", "utf8"}
  /\ \A i \in 1..Len(TheFile.data.chars) : TheFile.data.chars[i] \notin CJK

AsciiLines == str_split(TheFile.data.chars, "NL")

\* C3: a decodable file whose only header candidate is a line with the
\* English word 'wavelength' in any letter case, followed by valid rows,
\* parses successfully.
C3_EnglishHeader ==
  (/\ Parsed
   /\ IsAsciiFile
   /\ \E i \in 1..Len(AsciiLines) :
         /\ HasEnglishMarker(AsciiLines[i])
         /\ \E j \in (i + 1)..Len(AsciiLines) : ValidLine(AsciiLines[j]))
     => IsFrame(parse_result.df)

\* the lines of the decoded text
DecodedLines == str_split(decode_loop(TheFile.data, 0, 1).content, "NL")

\* the header scan finds a header, so there is a data segment
DataSegment ==
  \A lines \in {DecodedLines} :
    \A hits \in {{i \in 1..Len(lines) : is_header_line(lines[i])}} :
      hits # {}

\* the data segment: the lines behind the first line the scan stops at
SegmentOf(lines) ==
  SubSeq(lines,
         SetMin({i \in 1..Len(lines) : is_header_line(lines[i])}) + 1,
         Len(lines))

\* C5: when the data segment holds N >= 1 valid lines and any number of
\* empty, comma-less or non-numeric lines in any positions, the result has
\* exactly N points, the i-th built from fields 0 and 1 of the i-th valid
\* line.
C5_PerLineTolerance ==
  (Parsed /\ decode_loop(TheFile.data, 0, 1).ok /\ DataSegment) =>
    \A valid \in {SelectSeq(SegmentOf(DecodedLines), ValidLine)} :
      valid # <<>> =>
        /\ IsFrame(parse_result.df)
        /\ parse_result.df.rows = [i \in 1..Len(valid) |-> PointOf(valid[i])]

\* two valid lines with an invalid line between them, the later one with
\* blanks and a third field
C5_Witness ==
  /\ Parsed /\ decode_loop(TheFile.data, 0, 1).ok /\ DataSegment
  /\ \A seg \in {SegmentOf(DecodedLines)} :
        /\ Len(seg) = 3
        /\ ValidLine(seg[1])
        /\ ~ValidLine(seg[2])
        /\ ValidLine(seg[3])
        /\ Len(seg[3]) > 3
  /\ Len(parse_result.df.rows) = 2

IsFinite(v) == v[1] = "num"

\* C6: every point of a parsed spectrum has two finite components.
C6_FinitePoints ==
  (Parsed /\ IsFrame(parse_result.df))
     => \A i \in 1..Len(parse_result.df.rows) :
           /\ IsFinite(parse_result.df.rows[i][1])
           /\ IsFinite(parse_result.df.rows[i][2])

\* the first candidate encoding that decodes the bytes, if any
Decoders ==
  {i \in 1..Len(encodings) : bytes_decode(TheFile.data, encodings[i]) # DecodeError}

FirstText == bytes_decode(TheFile.data, encodings[SetMin(Decoders)])

FirstLines == str_split(FirstText, "NL")

\* the lines that contain a header marker: the localized token or the
\* English word in any letter case
MarkerLines ==
  {i \in 1..Len(FirstLines) :
      HasLocalMarker(FirstLines[i]) \/ HasEnglishMarker(FirstLines[i])}

NoDecoding == Decoders = {}

NoHeader == ~NoDecoding /\ MarkerLines = {}

NoData ==
  /\ ~NoDecoding
  /\ ~NoHeader
  /\ SelectSeq(SubSeq(FirstLines, SetMin(MarkerLines) + 1, Len(FirstLines)),
               ValidLine) = <<>>

\* C10: parse_txt_file fails exactly when (1) no candidate encoding decodes
\* the bytes, (2) the text of the first candidate that decodes has no line
\* with a header marker, (3) no valid data row follows the header; each
\* failure reports one error message naming the file, success reports none.
C10_FailureCases ==
  Parsed =>
    /\ (parse_result.df = None) <=> (NoDecoding \/ NoHeader \/ NoData)
    /\ NoDecoding => parse_result.errors = <<st_error("encoding", TheFile.name)>>
    /\ NoHeader => parse_result.errors = <<st_error("no_header", TheFile.name)>>
    /\ NoData => parse_result.errors = <<st_error("no_data", TheFile.name)>>
    /\ ~(NoDecoding \/ NoHeader \/ NoData) => parse_result.errors = <<>>

(* -------------------- properties of merge_txt_files --------------------- *)
\* what parse_txt_file returns for each upload, in upload order
RECURSIVE ParseEach(_)
ParseEach(files) ==
  IF files = <<>> THEN <<>>
  ELSE <<parse_txt_file(Head(files)).df>> \o ParseEach(Tail(files))

\* the positions of the uploads that parse successfully / that fail, given
\* the parse results ps
SurvivorsOf(ps) == SelectSeq([i \in 1..Len(ps) |-> i], LAMBDA i : ps[i] # None)

FailuresOf(ps) == SelectSeq([i \in 1..Len(ps) |-> i], LAMBDA i : ps[i] = None)

\* the error messages of the files, without the message main adds
FileErrors == SelectSeq(errors, LAMBDA e : e.file # <<>>)

\* value column k of the table pairs every row's key with a y-value of the
\* spectrum frame
ColumnFrom(k, frame) ==
  \A r \in 1..Len(df.rows) :
     <<df.rows[r][1], df.rows[r][k + 1]>> \in Range(frame.rows)

\* the name of an upload without its extension (every upload is stem.ext)
Stem(f) == SubSeq(f.name, 1, Len(f.name) - 2)

\* label k of the table is the stem of upload f, possibly followed by
\* merge suffixes
LabelFrom(k, f) ==
  /\ Len(df.cols[k + 1]) >= Len(Stem(f))
  /\ SubSeq(df.cols[k + 1], 1, Len(Stem(f))) = Stem(f)
  /\ \A j \in (Len(Stem(f)) + 1)..Len(df.cols[k + 1]) :
        df.cols[k + 1][j] \in {"_x", "_y"}

\* C4: a file that fails to parse is left out and reported, every other
\* file is still parsed and joined: dfs holds exactly the surviving uploads
\* in order, and three uploads of which one fails give a table with two
\* value columns built from the other two.
C4_FailureIsolation ==
  HasRun =>
    \A ps \in {ParseEach(uploaded_files)} :
    \A sv \in {SurvivorsOf(ps)}, fl \in {FailuresOf(ps)} :
      /\ dfs = [k \in 1..Len(sv) |-> ps[sv[k]]]
      /\ file_names = [k \in 1..Len(sv) |-> Stem(uploaded_files[sv[k]])]
      /\ [k \in 1..Len(FileErrors) |-> FileErrors[k].file]
           = [k \in 1..Len(fl) |-> uploaded_files[fl[k]].name]
      /\ (Len(uploaded_files) = 3 /\ Len(sv) = 2 /\ IsFrame(df))
            => /\ Len(df.cols) = 3
               /\ ColumnFrom(1, ps[sv[1]])
               /\ ColumnFrom(2, ps[sv[2]])

\* the first of three uploads fails, the two later ones are joined
C4_Witness ==
  /\ HasRun /\ Len(uploaded_files) = 3
  /\ SurvivorsOf(ParseEach(uploaded_files)) = <<2, 3>>
  /\ IsFrame(df) /\ Len(df.cols) = 3 /\ df.rows # <<>>

\* C7: whenever a table is returned it has one value column per upload
\* that parsed successfully, and the value columns are in upload order.
C7_ColumnCount ==
  (HasRun /\ IsFrame(df)) =>
    \A ps \in {ParseEach(uploaded_files)} :
    \A sv \in {SurvivorsOf(ps)} :
      /\ Len(df.cols) - 1 = Len(sv)
      /\ \A k \in 1..Len(sv) :
            LabelFrom(k, uploaded_files[sv[k]]) /\ ColumnFrom(k, ps[sv[k]])

\* two surviving uploads with the same derived name behind a failed one
C7_Witness ==
  /\ HasRun /\ IsFrame(df) /\ df.rows # <<>>
  /\ Len(uploaded_files) = 3
  /\ SurvivorsOf(ParseEach(uploaded_files)) = <<2, 3>>
  /\ Stem(uploaded_files[2]) = Stem(uploaded_files[3])
  /\ Len(df.cols) = 3

\* the uploads without their read positions
Contents(files) ==
  [i \in 1..Len(files) |-> [name |-> files[i].name, data |-> files[i].data]]

\* C8: a run of the script on the same uploads as the run before returns
\* the same table or failure and reports the same errors.
C8_Idempotent ==
  [][(HasRun /\ Contents(uploaded_files') = Contents(uploaded_files))
       => (df' = df /\ dfs' = dfs /\ file_names' = file_names
           /\ errors' = errors)]_vars

\* a rerun (only a rerun shows the warning) on uploads whose buffers were
\* read to the end, one of them decoded by the second candidate
C8_Witness ==
  /\ stage = "warning" /\ IsFrame(df) /\ df.rows # <<>>
  /\ \A i \in 1..Len(uploaded_files) :
        uploaded_files[i].pos = Len(uploaded_files[i].data.chars)
  /\ \E i \in 1..Len(uploaded_files) :
        /\ uploaded_files[i].data.tag = "utf8"
        /\ parse_txt_file(uploaded_files[i]).df # None
  /\ Len(dfs) < Len(uploaded_files)

\* C9 as stated: with no uploads an error is surfaced and no chart drawn.
C9_EmptyShowsError ==
  (HasRun /\ uploaded_files = <<>>)
     => (errors # <<>> /\ stage \notin {"chart", "warning"})

\* C9 amended: with no uploads merge_txt_files returns None, main does not
\* call it, shows the upload prompt and no error, and draws no chart.
C9_EmptyShowsInfo ==
  (HasRun /\ uploaded_files = <<>>)
     => /\ stage = "info"
        /\ errors = <<>>
        /\ df = Unset
        /\ ~success.shown
        /\ merge_txt_files(<<>>, pandas_version).df = None

\* the script has run with an empty uploader
C9_Witness == stage = "info" /\ uploaded_files = <<>> /\ errors = <<>>

(* ------------------------ order of the key column ----------------------- *)
\* the key column of a frame
KeySeq(frame) == [i \in 1..Len(frame.rows) |-> frame.rows[i][1]]

\* ks keeps the relative order of ss: ks can be laid over ss from left to
\* right, every key on an equal key of ss, never stepping back (a key of ss
\* may be dropped, or repeated where a join found several matches)
RECURSIVE KeepsOrder(_, _)
KeepsOrder(ks, ss) ==
  IF ks = <<>> THEN TRUE
  ELSE IF ss = <<>> THEN FALSE
  ELSE IF Head(ks) = Head(ss) THEN KeepsOrder(Tail(ks), ss)
  ELSE KeepsOrder(ks, Tail(ss))

\* no x-value occurs on two data lines of the spectrum
DistinctKeys(frame) ==
  \A i, j \in 1..Len(frame.rows) :
     i # j => frame.rows[i][1] # frame.rows[j][1]

\* C11: the key column of a returned table comes from the first spectrum
\* that parsed (dfs[0], which is not the first upload when that one failed),
\* and its keys stand in the relative order of that spectrum's points:
\* neither sorted nor put into the order of a later spectrum by the joins;
\* without repeated x-values it is exactly the surviving keys of that
\* spectrum in its order.
C11_SeedOrder ==
  (HasRun /\ dfs # <<>> /\ IsFrame(df)) =>
    /\ KeepsOrder(KeySeq(df), KeySeq(dfs[1]))
    /\ (\A i \in 1..Len(dfs) : DistinctKeys(dfs[i]))
          => KeySeq(df) = SelectSeq(KeySeq(dfs[1]), LAMBDA k : k \in KeySet(df))
    /\ \A ps \in {ParseEach(uploaded_files)} :
          dfs[1] = ps[SurvivorsOf(ps)[1]]

\* the first upload fails; the first parsed spectrum has the keys 410, 400
\* and a later one 400, 410: the table keeps 410 before 400
C11_Witness ==
  /\ HasRun /\ IsFrame(df) /\ Len(dfs) = 2 /\ Len(uploaded_files) = 3
  /\ uploaded_files[1].data.tag = "bin"
  /\ KeySeq(dfs[1]) = <<(<<"num", 41000>>), (<<"num", 40000>>)>>
  /\ KeySeq(dfs[2]) = <<(<<"num", 40000>>), (<<"num", 41000>>)>>
  /\ KeySeq(df) = <<(<<"num", 41000>>), (<<"num", 40000>>)>>

(* ------------------------- the first header line ------------------------ *)
\* the lines behind the first line that contains a header marker
AfterFirstMarker ==
  SubSeq(FirstLines, SetMin(MarkerLines) + 1, Len(FirstLines))

\* C12: only the first line with a header marker delimits the data. The
\* points are exactly those of the valid lines behind it: the header line
\* and the lines before it give no point even when they hold two numbers,
\* and a later line with the marker is a data line like any other (a point
\* when its first two fields are numbers, skipped otherwise).
C12_FirstHeaderOnly ==
  (Parsed /\ ~NoDecoding /\ MarkerLines # {}) =>
    \A valid \in {SelectSeq(AfterFirstMarker, ValidLine)} :
      IF valid = <<>> THEN parse_result.df = None
      ELSE /\ IsFrame(parse_result.df)
           /\ parse_result.df.rows = [i \in 1..Len(valid) |-> PointOf(valid[i])]

(* ------------------------- equal derived names -------------------------- *)
\* positions in dfs of two parsed uploads with the same derived name
SameNamePairs ==
  {p \in (1..Len(dfs)) \X (1..Len(dfs)) :
      p[1] < p[2] /\ file_names[p[1]] = file_names[p[2]]}

C14_AlignedColumns ==
  (HasRun /\ IsFrame(df)) =>
    /\ Len(df.cols) = Len(dfs) + 1
    /\ \A r \in 1..Len(df.rows) : Len(df.rows[r]) = Len(df.cols)
    /\ \A k \in 1..Len(dfs) :
          ColumnFrom(k, dfs[k]) /\ df.cols[k + 1] = file_names[k]

(* -------------------------- repeated x-values --------------------------- *)
\* C15: the key column of a returned table has no value twice, also when a
\* spectrum has the same x-value on several data lines, and so the table
\* has at most as many rows as the first parsed spectrum has points.
C15_UniqueKeys ==
  (HasRun /\ dfs # <<>> /\ IsFrame(df)) =>
    /\ \A r1, r2 \in 1..Len(df.rows) :
          r1 # r2 => df.rows[r1][1] # df.rows[r2][1]
    /\ Len(df.rows) <= Len(dfs[1].rows)

(* ------------------------- the success message -------------------------- *)
\* C16: the number of files the success message reports is the number of
\* uploads that parsed and have a column in the table, also when other
\* uploads of the batch failed.
C16_SuccessCount ==
  (HasRun /\ success.shown) =>
    /\ success.files = Len(dfs)
    /\ success.files = Len(df.cols) - 1

====
